---- MODULE Spec2Model ----
(***************************************************************************)
(* Theradash data synchronisation (services/sync_service.py): the          *)
(* registry reconciler, the event ingestor, the risk notifier and the      *)
(* orchestrator full_sync, together with the two external systems they     *)
(* pull from (the Firestore event store and the REDCap registry).          *)
(*                                                                         *)
(* The local database is SQLite: a write transaction holds the database    *)
(* write lock from its first flush to its commit, so every phase that the  *)
(* code commits as one transaction is one atomic step here, and the        *)
(* per-participant loop of sync_redcap_participants works on the session   *)
(* of the run until the per-project commit installs it.                    *)
(***************************************************************************)
EXTENDS Integers, Sequences, FiniteSets, TLC

\* ------------------------------------------------------------------ bounds
MaxTime == 3
MaxInvocations == 2
MaxEnvChanges == 2

\* --------------------------------------------------------- the fixed data
Runs == {1, 2}

ProjectList == <<"p1", "p2">>
Projects == {"p1", "p2"}
RecordIds == <<"1">>

AccountIds == {"a1", "a2"}
NoRecord == "-"
RegistryValues == {NoRecord, "", "a1", "a2"}

ConvoList == <<"c1", "c2">>
ConvoIds == {"c1", "c2"}
MessageList == <<"m1", "m2">>
MessageIds == {"m1", "m2"}
AccountList == <<"a1", "a2">>

Modes == {"redcap", "uids", "both", "all"}

\* the research_assistant value the registry reports for every record
RegistryRA == "RA"

PlaceholderKey(p, rec) == "redcap_" \o p \o "_" \o rec

\* the documents of the event store: who owns a conversation, and the
\* conversation, owner and riskScore of a message
ConvoUser(c) == IF c = "c1" THEN "a1" ELSE "a2"

MsgConvo(m) == IF m = "m1" THEN "c1" ELSE "c2"

MsgUser(m) == IF m = "m1" THEN "a1" ELSE "a2"

MsgRiskScore(m) == IF m = "m1" THEN "Risky" ELSE "Not Risky"

MsgText(m) == "text_" \o m

\* ------------------------------------------------------------- variables
VARIABLES
    now,            \* the wall clock, datetime.utcnow()
    mode,           \* Config.USER_SELECTION_MODE
    uids,           \* Config.FIREBASE_UIDS
    redcap,         \* the registry: project -> record id -> firebase id field
    fs_users,       \* event store, collection 'users'
    fs_convos,      \* event store, collection 'convos': id -> timestamp, 0 = no document
    fs_messages,    \* event store, collection 'messages': id -> timestamp, 0 = no document
    users,          \* table users, row id = index
    conversations,  \* table conversations, row id = index
    messages,       \* table messages, row id = index
    sync_logs,      \* table sync_logs, row id = index
    pc,             \* the position of each full_sync invocation
    loc,            \* the local variables of each full_sync invocation
    session,        \* the uncommitted users rows of the open transaction of each run
    result,         \* the value full_sync returned
    hist,           \* what each invocation observed and did, for the properties
    prev,           \* what the last finished invocation observed and did
    runs_left,      \* full_sync calls the callers may still make
    env_left        \* changes the external systems may still make

vars == <<now, mode, uids, redcap, fs_users, fs_convos, fs_messages, users,
          conversations, messages, sync_logs, pc, loc, session, result, hist,
          prev, runs_left, env_left>>

envVars == <<redcap, fs_users, fs_convos, fs_messages, env_left>>
cfgVars == <<mode, uids>>
dbVars == <<users, conversations, messages, sync_logs>>

\* ------------------------------------------------------ table helpers
Range(s) == {s[i] : i \in DOMAIN s}

\* Model.query.filter_by(...).first(): the row id, 0 for None
FindUser(us, fid) ==
    IF \E i \in DOMAIN us : us[i].firebase_id = fid
    THEN CHOOSE i \in DOMAIN us : /\ us[i].firebase_id = fid
                                  /\ \A j \in DOMAIN us : us[j].firebase_id = fid => i <= j
    ELSE 0

FindConversation(cs, cid) ==
    IF \E i \in DOMAIN cs : cs[i].firebase_convo_id = cid
    THEN CHOOSE i \in DOMAIN cs : /\ cs[i].firebase_convo_id = cid
                                  /\ \A j \in DOMAIN cs : cs[j].firebase_convo_id = cid => i <= j
    ELSE 0

FindMessage(ms, mid) ==
    IF \E i \in DOMAIN ms : ms[i].firebase_message_id = mid
    THEN CHOOSE i \in DOMAIN ms : /\ ms[i].firebase_message_id = mid
                                  /\ \A j \in DOMAIN ms : ms[j].firebase_message_id = mid => i <= j
    ELSE 0

NewUser(fid, rfid, rid, ra, proj) ==
    [firebase_id |-> fid, redcap_firebase_id |-> rfid, redcap_id |-> rid,
     research_assistant |-> ra, project_id |-> proj, is_active |-> TRUE]

\* _is_risky: the riskScore, stripped and lower-cased, is "risky"
StripLower(v) == IF v \in {"Risky", "risky", " Risky "} THEN "risky"
                 ELSE IF v = "Not Risky" THEN "not risky" ELSE v

IsRisky(risk_value) ==
    IF risk_value = "None" THEN FALSE ELSE StripLower(risk_value) = "risky"

\* get_last_sync_timestamp: the greatest last_sync_timestamp of sync_logs,
\* None (0) when the table is empty
GetLastSyncTimestamp(logs) ==
    IF logs = <<>> THEN 0
    ELSE CHOOSE t \in {logs[i].last_sync_timestamp : i \in DOMAIN logs} :
            \A i \in DOMAIN logs : logs[i].last_sync_timestamp <= t

\* ------------------------------------------- the registry reconciler
\* REDCapService.get_all_participants of one project: the records the
\* registry holds, in record order
RECURSIVE ParticipantsFrom(_, _, _)
ParticipantsFrom(reg, p, i) ==
    IF i > Len(RecordIds) THEN <<>>
    ELSE (IF reg[p][RecordIds[i]] = NoRecord THEN <<>>
          ELSE << [record_id |-> RecordIds[i],
                   firebase_id |-> reg[p][RecordIds[i]],
                   research_assistant |-> RegistryRA] >>)
         \o ParticipantsFrom(reg, p, i + 1)

GetAllParticipants(reg, p) == ParticipantsFrom(reg, p, 1)

\* the lookup done by the registry key (project_id, redcap_id) instead of by
\* the placeholder firebase_id
PlaceholderLookupByRecord(us, p, rec) ==
    IF \E i \in DOMAIN us : us[i].project_id = p /\ us[i].redcap_id = rec
    THEN CHOOSE i \in DOMAIN us : /\ us[i].project_id = p /\ us[i].redcap_id = rec
                                  /\ \A j \in DOMAIN us :
                                        (us[j].project_id = p /\ us[j].redcap_id = rec) => i <= j
    ELSE 0

\* User.query.filter_by(firebase_id=placeholder_firebase_id).first()
PlaceholderLookup(us, p, rec) == FindUser(us, PlaceholderKey(p, rec))

\* the registry fields the placeholder branches write to an existing row
UpdatePlaceholder(u, p, part) ==
    [u EXCEPT !.redcap_firebase_id = part.firebase_id,
              !.research_assistant = part.research_assistant,
              !.project_id = p,
              !.is_active = TRUE]

\* firebase_id empty (lines 359-399), or not found in the event store
\* (lines 405-438): find or create the placeholder row of the record
StorePlaceholder(us, p, part) ==
    LET i == PlaceholderLookup(us, p, part.record_id)
    IN IF i = 0
       THEN Append(us, NewUser(PlaceholderKey(p, part.record_id), part.firebase_id,
                               part.record_id, part.research_assistant, p))
       ELSE [us EXCEPT ![i] = UpdatePlaceholder(us[i], p, part)]

\* the same without the check for a stored placeholder
StoreResolvedNoPromotion(us, p, part) ==
    LET i == FindUser(us, part.firebase_id)
    IN IF i = 0
       THEN Append(us, NewUser(part.firebase_id, part.firebase_id, part.record_id,
                               part.research_assistant, p))
       ELSE [us EXCEPT ![i] = [@ EXCEPT !.redcap_firebase_id = part.firebase_id,
                                        !.redcap_id = part.record_id,
                                        !.research_assistant = part.research_assistant,
                                        !.project_id = p,
                                        !.is_active = TRUE]]

\* the event-store document exists (lines 440-491)
StoreResolved(us, p, part) ==
    LET i == FindUser(us, part.firebase_id)
        k == PlaceholderLookup(us, p, part.record_id)
    IN IF i = 0
       THEN IF k # 0
            THEN [us EXCEPT ![k] = [@ EXCEPT !.firebase_id = part.firebase_id,
                                             !.redcap_firebase_id = part.firebase_id,
                                             !.is_active = TRUE]]
            ELSE Append(us, NewUser(part.firebase_id, part.firebase_id, part.record_id,
                                    part.research_assistant, p))
       ELSE [us EXCEPT ![i] = [@ EXCEPT !.redcap_firebase_id = part.firebase_id,
                                        !.redcap_id = part.record_id,
                                        !.research_assistant = part.research_assistant,
                                        !.project_id = p,
                                        !.is_active = TRUE]]

\* get_user_by_id raised (lines 493-519)
StoreAfterError(us, p, part) ==
    LET i == PlaceholderLookup(us, p, part.record_id)
    IN IF i = 0
       THEN Append(us, NewUser(PlaceholderKey(p, part.record_id), part.firebase_id,
                               part.record_id, part.research_assistant, p))
       ELSE [us EXCEPT ![i] = [@ EXCEPT !.redcap_firebase_id = part.firebase_id]]

\* one pass of the participant loop; lookup is what get_user_by_id did:
\* "found", "missing" or "raise"
ReconcileParticipant(us, p, part, lookup) ==
    IF part.firebase_id = "" THEN StorePlaceholder(us, p, part)
    ELSE IF lookup = "missing" THEN StorePlaceholder(us, p, part)
    ELSE IF lookup = "found" THEN StoreResolved(us, p, part)
    ELSE StoreAfterError(us, p, part)

\* the row the participant loop holds in its variable user at the end of a
\* pass, in the table the pass produced
ParticipantRow(us, p, part, lookup) ==
    IF part.firebase_id # "" /\ lookup = "found" THEN FindUser(us, part.firebase_id)
    ELSE PlaceholderLookup(us, p, part.record_id)

\* firebase_service.get_user_by_id: what the call can do
LookupOutcomes(fsu, fid) == {IF fid \in fsu THEN "found" ELSE "missing", "raise"}

\* ------------------------------------------------ sync_uid_users
ExternalTester == "External Tester"
FirebaseUserRA == "Firebase User"

\* one pass of the loop over Config.FIREBASE_UIDS (lines 174-240)
SyncUidUser(us, fid, lookup) ==
    LET i == FindUser(us, fid)
    IN IF lookup = "missing"
       THEN IF i = 0 THEN Append(us, NewUser(fid, "", "", ExternalTester, ""))
            ELSE [us EXCEPT ![i] = [@ EXCEPT !.is_active = TRUE,
                                             !.research_assistant = ExternalTester]]
       ELSE IF lookup = "found"
       THEN IF i = 0 THEN Append(us, NewUser(fid, "", "", ExternalTester, ""))
            ELSE [us EXCEPT ![i] = [@ EXCEPT !.is_active = TRUE,
                                             !.research_assistant =
                                                 IF us[i].redcap_id = "" THEN ExternalTester ELSE @]]
       ELSE IF i = 0 THEN Append(us, NewUser(fid, "", "", ExternalTester, ""))
            ELSE us

RECURSIVE SyncUidUsersFrom(_, _, _, _)
SyncUidUsersFrom(us, list, lookups, i) ==
    IF i > Len(list) THEN us
    ELSE SyncUidUsersFrom(SyncUidUser(us, list[i], lookups[i]), list, lookups, i + 1)

\* ------------------------------------------ sync_all_firebase_users
\* firebase_service.get_users: the documents of collection 'users'
GetUsers(fsu) == SelectSeq(AccountList, LAMBDA a : a \in fsu)

\* one pass of the loop over the event-store users (lines 257-294)
SyncFirebaseUser(us, fid) ==
    LET i == FindUser(us, fid)
    IN IF i = 0 THEN Append(us, NewUser(fid, "", "", FirebaseUserRA, ""))
       ELSE [us EXCEPT ![i] = [@ EXCEPT !.is_active = TRUE,
                                        !.research_assistant =
                                            IF us[i].redcap_id = "" THEN FirebaseUserRA ELSE @]]

RECURSIVE SyncFirebaseUsersFrom(_, _, _)
SyncFirebaseUsersFrom(us, list, i) ==
    IF i > Len(list) THEN us
    ELSE SyncFirebaseUsersFrom(SyncFirebaseUser(us, list[i]), list, i + 1)

\* ------------------------------------------------ the event ingestor
\* the Firestore filter where('timestamp', '>', since), applied only when
\* since is truthy (None is 0 here)
NewerThan(ts, since) == IF since # 0 THEN ts > since ELSE TRUE

\* firebase_service.get_conversations_since
GetConversationsSince(fsc, since) ==
    SelectSeq(ConvoList, LAMBDA c : fsc[c] # 0 /\ NewerThan(fsc[c], since))

\* firebase_service.get_messages_since
GetMessagesSince(fsm, since) ==
    SelectSeq(MessageList, LAMBDA m : fsm[m] # 0 /\ NewerThan(fsm[m], since))

\* firebase_service.get_messages_for_user, called without since_timestamp
GetMessagesForUser(fsm, fid) ==
    SelectSeq(MessageList, LAMBDA m : fsm[m] # 0 /\ MsgUser(m) = fid)

\* one pass of the loop of sync_conversations (lines 571-595): the table
\* and whether the pass counted
SyncConversation(cs, us, fsc, c) ==
    LET i == FindConversation(cs, c)
        u == FindUser(us, ConvoUser(c))
    IN IF i # 0
       THEN [rows |-> [cs EXCEPT ![i] = [@ EXCEPT !.timestamp = fsc[c]]], counted |-> 1]
       ELSE IF u = 0 THEN [rows |-> cs, counted |-> 0]
       ELSE [rows |-> Append(cs, [firebase_convo_id |-> c, user_id |-> u,
                                  timestamp |-> fsc[c]]),
             counted |-> 1]

RECURSIVE SyncConversationsFrom(_, _, _, _, _, _)
SyncConversationsFrom(cs, n, us, fsc, list, i) ==
    IF i > Len(list) THEN [rows |-> cs, synced_count |-> n]
    ELSE LET step == SyncConversation(cs, us, fsc, list[i])
         IN SyncConversationsFrom(step.rows, n + step.counted, us, fsc, list, i + 1)

\* ------------------------------------------------- the risk notifier
\* TwilioService.send_risk_alert(self, user_firebase_id, risk_score, message_text)
RiskAlertParams == 3

\* the arguments sync_messages passes: (user_firebase_id, message.text)
RiskAlertArgs == 2

\* the call twilio_service.send_risk_alert(...): a call whose argument count
\* does not match the signature raises TypeError before the body runs;
\* otherwise the body returns True ("sent"), False ("failed") or raises
SendRiskAlert(nargs, twilio) == IF nargs # RiskAlertParams THEN "raise" ELSE twilio

TwilioOutcomes == {"sent", "failed", "raise"}

RiskyIds == {m \in MessageIds : IsRisky(MsgRiskScore(m))}

\* the row sync_messages builds for a fetched message (lines 656-663, 677)
NewMessage(cs, us, fsm, m, alert) ==
    [firebase_message_id |-> m,
     conversation_id |-> FindConversation(cs, MsgConvo(m)),
     user_id |-> FindUser(us, MsgUser(m)),
     text |-> MsgText(m),
     timestamp |-> fsm[m],
     is_risky |-> IsRisky(MsgRiskScore(m)),
     alert_sent |-> (alert = "sent"),
     is_reviewed |-> FALSE]

\* an upsert in place of the skip of lines 636-638: the stored row of a
\* message that is fetched again is rebuilt and its alert sent again
SyncMessageUpsert(st, cs, us, fsm, m, twilio) ==
    LET i == FindMessage(st.rows, m)
        is_risky == IsRisky(MsgRiskScore(m))
        alert == IF is_risky THEN SendRiskAlert(RiskAlertArgs, twilio[m]) ELSE "none"
    IN IF FindConversation(cs, MsgConvo(m)) = 0 \/ FindUser(us, MsgUser(m)) = 0 THEN st
       ELSE [st EXCEPT !.rows = IF i # 0 THEN [@ EXCEPT ![i] = NewMessage(cs, us, fsm, m, alert)]
                                 ELSE Append(@, NewMessage(cs, us, fsm, m, alert)),
                       !.synced_count = @ + 1,
                       !.existing = IF i # 0 THEN @ \cup {m} ELSE @,
                       !.offered = IF is_risky THEN @ \cup {m} ELSE @]

\* a failed alert that ends the pass before the row is added
SyncMessageAlertAborts(st, cs, us, fsm, m, twilio) ==
    LET is_risky == IsRisky(MsgRiskScore(m))
        alert == IF is_risky THEN SendRiskAlert(RiskAlertArgs, twilio[m]) ELSE "none"
    IN IF FindMessage(st.rows, m) # 0 THEN [st EXCEPT !.existing = @ \cup {m}]
       ELSE IF FindConversation(cs, MsgConvo(m)) = 0 \/ FindUser(us, MsgUser(m)) = 0 THEN st
       ELSE IF alert \in {"failed", "raise"} THEN [st EXCEPT !.offered = @ \cup {m}]
       ELSE [st EXCEPT !.rows = Append(@, NewMessage(cs, us, fsm, m, alert)),
                       !.synced_count = @ + 1,
                       !.alerts_sent = @ + (IF alert = "sent" THEN 1 ELSE 0),
                       !.offered = IF is_risky THEN @ \cup {m} ELSE @]

\* the alert sent ahead of the check of lines 634-638: every fetched risky
\* message is offered to the alert sender, stored already or not
SyncMessageAlertFirst(st, cs, us, fsm, m, twilio) ==
    LET is_risky == IsRisky(MsgRiskScore(m))
        alert == IF is_risky THEN SendRiskAlert(RiskAlertArgs, twilio[m]) ELSE "none"
        sent == [st EXCEPT !.offered = IF is_risky THEN @ \cup {m} ELSE @,
                           !.calls = IF is_risky THEN Append(@, m) ELSE @]
    IN IF FindMessage(st.rows, m) # 0 THEN [sent EXCEPT !.existing = @ \cup {m}]
       ELSE IF FindConversation(cs, MsgConvo(m)) = 0 THEN [st EXCEPT !.skipped = @ \cup {m}]
       ELSE IF FindUser(us, MsgUser(m)) = 0 THEN st
       ELSE [sent EXCEPT !.rows = Append(@, NewMessage(cs, us, fsm, m, alert)),
                         !.synced_count = @ + 1,
                         !.alerts_sent = @ + (IF alert = "sent" THEN 1 ELSE 0)]

\* one pass of the loop of sync_messages (lines 628-681); st carries the
\* table, the counters, and the ids found stored already, offered to the
\* alert sender, deliverable by the alert sender, and skipped for a missing
\* conversation, and the calls of the alert sender in order
SyncMessage(st, cs, us, fsm, m, twilio) ==
    IF FindMessage(st.rows, m) # 0 THEN [st EXCEPT !.existing = @ \cup {m}]
    ELSE IF FindConversation(cs, MsgConvo(m)) = 0
    THEN [st EXCEPT !.skipped = @ \cup {m}]
    ELSE IF FindUser(us, MsgUser(m)) = 0 THEN st
    ELSE LET is_risky == IsRisky(MsgRiskScore(m))
             alert == IF is_risky THEN SendRiskAlert(RiskAlertArgs, twilio[m]) ELSE "none"
         IN [rows |-> Append(st.rows, NewMessage(cs, us, fsm, m, alert)),
             synced_count |-> st.synced_count + 1,
             alerts_sent |-> st.alerts_sent + (IF alert = "sent" THEN 1 ELSE 0),
             offered |-> IF is_risky THEN st.offered \cup {m} ELSE st.offered,
             deliverable |-> IF is_risky /\ twilio[m] = "sent"
                             THEN st.deliverable \cup {m} ELSE st.deliverable,
             existing |-> st.existing,
             skipped |-> st.skipped,
             calls |-> IF is_risky THEN Append(st.calls, m) ELSE st.calls]

\* a break in place of the 'continue' of lines 644 and 650: the loop ends at
\* the first message whose conversation or user is not local
RECURSIVE SyncMessagesFromBreak(_, _, _, _, _, _, _)
SyncMessagesFromBreak(st, cs, us, fsm, list, twilio, i) ==
    IF i > Len(list) THEN st
    ELSE IF /\ FindMessage(st.rows, list[i]) = 0
            /\ (FindConversation(cs, MsgConvo(list[i])) = 0 \/ FindUser(us, MsgUser(list[i])) = 0)
    THEN st
    ELSE SyncMessagesFromBreak(SyncMessage(st, cs, us, fsm, list[i], twilio),
                               cs, us, fsm, list, twilio, i + 1)

RECURSIVE SyncMessagesFrom(_, _, _, _, _, _, _)
SyncMessagesFrom(st, cs, us, fsm, list, twilio, i) ==
    IF i > Len(list) THEN st
    ELSE SyncMessagesFrom(SyncMessage(st, cs, us, fsm, list[i], twilio),
                          cs, us, fsm, list, twilio, i + 1)

\* the UID branch of sync_messages (lines 614-623): all messages of every
\* listed UID whose fetch did not raise, in list order
RECURSIVE MessagesForUids(_, _, _, _)
MessagesForUids(fsm, list, fetch, i) ==
    IF i > Len(list) THEN <<>>
    ELSE (IF fetch[i] = "ok" THEN GetMessagesForUser(fsm, list[i]) ELSE <<>>)
         \o MessagesForUids(fsm, list, fetch, i + 1)

\* ------------------------------------------------------ the database
\* the rollback left out: the pending rows stay in the session and reach the
\* database
NoRollback(committed, pending) == pending

\* db.session.rollback(): the pending rows are discarded
Rollback(committed, pending) == committed

\* the SQLite write lock: no other run has a write transaction open
TxnPcs == {"redcap_participant", "redcap_commit"}

DbFree(r) == \A q \in Runs \ {r} : pc[q] \notin TxnPcs

\* ------------------------------------------------------ initial state
\* the sizes of the tables users, conversations and messages
RowCounts == <<Len(users), Len(conversations), Len(messages)>>

InitLoc ==
    [start_time |-> 0, project_index |-> 0, redcap_participants |-> <<>>,
     participant_index |-> 0, users_synced |-> 0, last_sync_timestamp |-> 0,
     conversations_synced |-> 0, messages_synced |-> 0, alerts_sent |-> 0]

InitHist ==
    [offered |-> {}, skipped |-> {}, conn_failed |-> FALSE, unalerted_before |-> {},
     watermark_before |-> 0, logs_before |-> 0, skipped_before |-> {},
     in_flight_before |-> {}, fetched_at |-> 0, lookup |-> "none",
     promoted |-> FALSE, env_same |-> FALSE, repeat |-> FALSE,
     rows_before |-> <<0, 0, 0>>, deliverable |-> {}, existing |-> {},
     batch |-> <<>>, touched |-> {}, fetch_failed |-> {}, reconciled |-> {},
     persist_failed |-> FALSE, calls |-> <<>>, pending |-> {}, pending_before |-> {},
     active_before |-> {}]

InitPrev == [skipped |-> {}, in_flight |-> {}, env_same |-> FALSE, pending |-> {}]

InitCommon ==
    /\ now = 1
    /\ fs_convos = [c \in ConvoIds |-> 0]
    /\ fs_messages = [m \in MessageIds |-> 0]
    /\ users = <<>>
    /\ conversations = <<>>
    /\ messages = <<>>
    /\ sync_logs = <<>>
    /\ loc = [r \in Runs |-> InitLoc]
    /\ session = [r \in Runs |-> <<>>]
    /\ result = [r \in Runs |-> [success |-> FALSE, error |-> "", users_synced |-> 0,
                                  conversations_synced |-> 0, messages_synced |-> 0,
                                  alerts_sent |-> 0]]
    /\ hist = [r \in Runs |-> InitHist]
    /\ prev = InitPrev

\* ------------------------------------------------ the external systems
\* The clock and the event store are read by FullSyncStart, SyncConversations,
\* SyncMessages and RecordSyncLog only; a tick or a write that happens during
\* any other step of a run is taken right before the next of these.
ReadPcs == {"idle", "off", "convos", "messages", "log"}

ReadPoint == \A r \in Runs : pc[r] \in ReadPcs

\* The registry and the accounts are read by RedcapFetch, RedcapParticipant,
\* SyncUidUsers and SyncAllFirebaseUsers; their changes are taken between
\* two runs or right before the user phase of a run.
AdminPcs == {"idle", "off", "deactivate"}

AdminPoint == \A r \in Runs : pc[r] \in AdminPcs

Tick ==
    /\ ReadPoint
    /\ now < MaxTime
    /\ now' = now + 1
    /\ UNCHANGED <<cfgVars, envVars, dbVars, pc, loc, session, result, hist, prev, runs_left>>

\* the history of every run notes that the configuration or the data of an
\* external system changed
EnvChanged ==
    /\ hist' = [r \in Runs |-> [hist[r] EXCEPT !.env_same = FALSE]]
    /\ prev' = [prev EXCEPT !.env_same = FALSE]

\* a client writes a conversation document, stamped with the current time
AddConversation(c) ==
    /\ ReadPoint
    /\ fs_convos[c] = 0
    /\ fs_convos' = [fs_convos EXCEPT ![c] = now]
    /\ EnvChanged
    /\ UNCHANGED <<now, cfgVars, redcap, fs_users, fs_messages, env_left, dbVars, pc, loc,
                   session, result, runs_left>>

\* a client writes a message document, stamped with the current time
AddMessage(m) ==
    /\ ReadPoint
    /\ fs_messages[m] = 0
    /\ fs_messages' = [fs_messages EXCEPT ![m] = now]
    /\ EnvChanged
    /\ UNCHANGED <<now, cfgVars, redcap, fs_users, fs_convos, env_left, dbVars, pc, loc,
                   session, result, runs_left>>

\* a client updates a conversation document (a new prompt); the document
\* carries the time of the update
TouchConversation(c) ==
    /\ ReadPoint
    /\ fs_convos[c] # 0
    /\ fs_convos[c] < now
    /\ fs_convos' = [fs_convos EXCEPT ![c] = now]
    /\ EnvChanged
    /\ UNCHANGED <<now, cfgVars, redcap, fs_users, fs_messages, env_left, dbVars, pc, loc,
                   session, result, runs_left>>

\* an account document appears in, or disappears from, collection 'users'
ChangeFsUser(a) ==
    /\ AdminPoint
    /\ env_left > 0
    /\ env_left' = env_left - 1
    /\ fs_users' = IF a \in fs_users THEN fs_users \ {a} ELSE fs_users \cup {a}
    /\ EnvChanged
    /\ UNCHANGED <<now, cfgVars, redcap, fs_convos, fs_messages, dbVars, pc, loc,
                   session, result, runs_left>>

\* study staff edit the firebase id field of a registry record, or add or
\* remove the record
ChangeRegistry(p, rec, v) ==
    /\ AdminPoint
    /\ env_left > 0
    /\ redcap[p][rec] # v
    /\ env_left' = env_left - 1
    /\ redcap' = [redcap EXCEPT ![p][rec] = v]
    /\ EnvChanged
    /\ UNCHANGED <<now, cfgVars, fs_users, fs_convos, fs_messages, dbVars, pc, loc,
                   session, result, runs_left>>

\* the deployment is reconfigured between two runs (USER_SELECTION_MODE is
\* read from the process environment)
ChangeMode(m) ==
    /\ \A r \in Runs : pc[r] \in {"idle", "off"}
    /\ env_left > 0
    /\ mode # m
    /\ env_left' = env_left - 1
    /\ mode' = m
    /\ EnvChanged
    /\ UNCHANGED <<now, uids, redcap, fs_users, fs_convos, fs_messages, dbVars, pc, loc,
                   session, result, runs_left>>

\* ------------------------------------------------- the reviewer (app.py)
\* mark_message_reviewed: a logged-in reviewer marks one message reviewed.
\* The synchronisation reads and writes the messages table in sync_messages
\* only, so a review made during a run is taken between two runs.
MarkMessageReviewed(i) ==
    /\ \A r \in Runs : pc[r] \in {"idle", "off"}
    /\ i \in DOMAIN messages
    /\ ~messages[i].is_reviewed
    /\ messages' = [messages EXCEPT ![i].is_reviewed = TRUE]
    /\ UNCHANGED <<now, cfgVars, envVars, users, conversations, sync_logs, pc, loc,
                   session, result, hist, prev, runs_left>>

\* ------------------------------------------------------------ full_sync
SuccessResult(l) ==
    [success |-> TRUE, error |-> "", users_synced |-> l.users_synced,
     conversations_synced |-> l.conversations_synced,
     messages_synced |-> l.messages_synced, alerts_sent |-> l.alerts_sent]

\* the except branch of full_sync (lines 797-803): the result it returns
FailureResult(err) ==
    [success |-> FALSE, error |-> err, users_synced |-> 0, conversations_synced |-> 0,
     messages_synced |-> 0, alerts_sent |-> 0]

NoResult == FailureResult("")

\* full_sync returns: the locals are gone, the caller holds the result
Finished(r, res) ==
    /\ pc' = [pc EXCEPT ![r] = "done"]
    /\ result' = [result EXCEPT ![r] = res]
    /\ loc' = [loc EXCEPT ![r] = [InitLoc EXCEPT !.start_time = loc[r].start_time]]
    /\ session' = [session EXCEPT ![r] = <<>>]
    /\ prev' = [skipped |-> hist'[r].skipped,
                in_flight |-> IF res.success
                              THEN prev.in_flight \cup
                                   {m \in MessageIds : /\ fs_messages[m] > hist'[r].fetched_at
                                                       /\ fs_messages[m] < now}
                              ELSE prev.in_flight,
                env_same |-> res.success /\ hist'[r].env_same,
                pending |-> IF res.success THEN {} ELSE prev.pending \cup hist'[r].pending]

\* the risky messages whose alert was never sent
Unalerted(ms) ==
    {ms[i].firebase_message_id : i \in {j \in DOMAIN ms : ms[j].is_risky /\ ~ms[j].alert_sent}}

\* lines 693-699: start_time, then firebase_service.initialize()
FullSyncStart(r) ==
    /\ pc[r] = "idle"
    /\ runs_left > 0
    /\ runs_left' = runs_left - 1
    /\ \E init \in {"ok", "raise"} :
        /\ hist' = [hist EXCEPT ![r] =
                       [InitHist EXCEPT !.unalerted_before = Unalerted(messages),
                                        !.watermark_before = GetLastSyncTimestamp(sync_logs),
                                        !.logs_before = Len(sync_logs),
                                        !.skipped_before = prev.skipped,
                                        !.in_flight_before = prev.in_flight,
                                        !.env_same = TRUE,
                                        !.repeat = prev.env_same,
                                        !.rows_before = RowCounts,
                                        !.pending_before = prev.pending,
                                        !.active_before =
                                            {i \in DOMAIN users : users[i].is_active},
                                        !.conn_failed = (init = "raise")]]
        /\ IF init = "ok"
           THEN /\ pc' = [pc EXCEPT ![r] = "deactivate"]
                /\ loc' = [loc EXCEPT ![r].start_time = now]
                /\ UNCHANGED <<result, session, prev>>
           ELSE Finished(r, FailureResult("initialize"))
    /\ UNCHANGED <<now, cfgVars, envVars, dbVars>>

\* the branch on Config.USER_SELECTION_MODE (lines 712-733)
UserSyncPc == IF mode = "uids" THEN "uid_users"
              ELSE IF mode = "all" THEN "all_users" ELSE "redcap_fetch"

\* a run that starts without the reset of lines 705-706
DeactivateNothing(r) ==
    /\ pc[r] = "deactivate"
    /\ DbFree(r)
    /\ pc' = [pc EXCEPT ![r] = UserSyncPc]
    /\ loc' = [loc EXCEPT ![r].project_index = 1]
    /\ UNCHANGED <<now, cfgVars, envVars, dbVars, session, result, hist, prev, runs_left>>

\* lines 705-706: every user is reset to inactive, and the reset is committed
Deactivate(r) ==
    /\ pc[r] = "deactivate"
    /\ DbFree(r)
    /\ users' = [i \in DOMAIN users |-> [users[i] EXCEPT !.is_active = FALSE]]
    /\ pc' = [pc EXCEPT ![r] = UserSyncPc]
    /\ loc' = [loc EXCEPT ![r].project_index = 1]
    /\ UNCHANGED <<now, cfgVars, envVars, conversations, messages, sync_logs, session,
                   result, hist, prev, runs_left>>

\* where sync_redcap_participants goes after project i
AfterProjectPc(i) ==
    IF i < Len(ProjectList) THEN "redcap_fetch"
    ELSE IF mode = "both" THEN "uid_users" ELSE "fb_user_data"

\* a failed fetch that leaves the loop over the projects
AfterFailedFetchBreak(i) == AfterProjectPc(Len(ProjectList))

\* lines 330-332: the fetch of project i raised, continue with the next one
AfterFailedFetchPc(i) == AfterProjectPc(i)

\* lines 319-336: the participants of the next project are fetched; a
\* fetch that raises skips the project
RedcapFetch(r) ==
    /\ pc[r] = "redcap_fetch"
    /\ DbFree(r)
    /\ LET i == loc[r].project_index
           p == ProjectList[i]
       IN \E fetch \in {"ok", "raise"} :
            LET batch == IF fetch = "ok" THEN GetAllParticipants(redcap, p) ELSE <<>>
            IN /\ hist' = [hist EXCEPT ![r].conn_failed = @ \/ (fetch = "raise"),
                                       ![r].fetch_failed =
                                           IF fetch = "raise" THEN @ \cup {p} ELSE @,
                                       ![r].reconciled =
                                           IF fetch = "ok" /\ batch = <<>> THEN @ \cup {p} ELSE @]
               /\ IF fetch = "raise"
                  THEN /\ pc' = [pc EXCEPT ![r] = AfterFailedFetchPc(i)]
                       /\ loc' = [loc EXCEPT ![r].project_index = i + 1]
                       /\ UNCHANGED session
                  ELSE IF batch = <<>>
                  THEN /\ pc' = [pc EXCEPT ![r] = AfterProjectPc(i)]
                       /\ loc' = [loc EXCEPT ![r].project_index = i + 1]
                       /\ UNCHANGED session
                  ELSE /\ pc' = [pc EXCEPT ![r] = "redcap_participant"]
                       /\ loc' = [loc EXCEPT ![r].redcap_participants = batch,
                                             ![r].participant_index = 1]
                       /\ session' = [session EXCEPT ![r] = users]
    /\ UNCHANGED <<now, cfgVars, envVars, dbVars, result, prev, runs_left>>

\* the case of lines 443-451: the record has a stored placeholder, reports an
\* id that resolves in the event store, and no local user carries that id
Promotable(us, p, part, lookup) ==
    /\ lookup = "found"
    /\ FindUser(us, PlaceholderKey(p, part.record_id)) # 0
    /\ FindUser(us, part.firebase_id) = 0

\* lines 338-519: one participant of the fetched list
RedcapParticipant(r) ==
    /\ pc[r] = "redcap_participant"
    /\ LET p == ProjectList[loc[r].project_index]
           k == loc[r].participant_index
           part == loc[r].redcap_participants[k]
       IN \E lookup \in (IF part.firebase_id = "" THEN {"none"}
                         ELSE LookupOutcomes(fs_users, part.firebase_id)) :
            /\ session' = [session EXCEPT ![r] = ReconcileParticipant(@, p, part, lookup)]
            /\ hist' = [hist EXCEPT ![r].conn_failed = @ \/ (lookup = "raise"),
                                    ![r].lookup = lookup,
                                    ![r].promoted = @ \/ Promotable(session[r], p, part, lookup),
                                    ![r].touched = @ \cup
                                        {ParticipantRow(ReconcileParticipant(session[r], p, part, lookup),
                                                        p, part, lookup)}]
            /\ loc' = [loc EXCEPT ![r].participant_index = k + 1]
            /\ pc' = [pc EXCEPT ![r] = IF k < Len(loc[r].redcap_participants)
                                       THEN "redcap_participant" ELSE "redcap_commit"]
    /\ UNCHANGED <<now, cfgVars, envVars, dbVars, result, prev, runs_left>>

\* lines 521-523: the commit that ends a project
RedcapCommit(r) ==
    /\ pc[r] = "redcap_commit"
    /\ LET i == loc[r].project_index
       IN \E commit \in {"ok", "raise"} :
            IF commit = "ok"
            THEN /\ users' = session[r]
                 /\ session' = [session EXCEPT ![r] = <<>>]
                 /\ pc' = [pc EXCEPT ![r] = AfterProjectPc(i)]
                 /\ loc' = [loc EXCEPT ![r].project_index = i + 1,
                                       ![r].users_synced = @ + Len(loc[r].redcap_participants),
                                       ![r].redcap_participants = <<>>,
                                       ![r].participant_index = 0]
                 /\ hist' = [hist EXCEPT ![r].reconciled = @ \cup {ProjectList[i]}]
                 /\ UNCHANGED <<result, prev>>
            ELSE /\ users' = Rollback(users, session[r])
                 /\ hist' = [hist EXCEPT ![r].persist_failed = TRUE]
                 /\ Finished(r, FailureResult("commit"))
    /\ UNCHANGED <<now, cfgVars, envVars, conversations, messages, sync_logs, runs_left>>

\* sync_uid_users (lines 167-244), one transaction
SyncUidUsers(r) ==
    /\ pc[r] = "uid_users"
    /\ DbFree(r)
    /\ \E lookups \in [1..Len(uids) -> {"found", "missing", "raise"}] :
        /\ \A i \in 1..Len(uids) : lookups[i] \in LookupOutcomes(fs_users, uids[i])
        /\ users' = SyncUidUsersFrom(users, uids, lookups, 1)
        /\ hist' = [hist EXCEPT ![r].conn_failed =
                       @ \/ (\E i \in 1..Len(uids) : lookups[i] = "raise")]
    /\ loc' = [loc EXCEPT ![r].users_synced = @ + Len(uids)]
    /\ pc' = [pc EXCEPT ![r] = "fb_user_data"]
    /\ UNCHANGED <<now, cfgVars, envVars, conversations, messages, sync_logs, session,
                   result, prev, runs_left>>

\* sync_all_firebase_users (lines 246-303), one transaction; a fetch that
\* raises is caught there and counts no user
SyncAllFirebaseUsers(r) ==
    /\ pc[r] = "all_users"
    /\ DbFree(r)
    /\ \E fetch \in {"ok", "raise"} :
        /\ users' = IF fetch = "ok"
                    THEN SyncFirebaseUsersFrom(users, GetUsers(fs_users), 1)
                    ELSE Rollback(users, users)
        /\ loc' = [loc EXCEPT ![r].users_synced =
                      IF fetch = "ok" THEN Len(GetUsers(fs_users)) ELSE 0]
        /\ hist' = [hist EXCEPT ![r].conn_failed = @ \/ (fetch = "raise")]
    /\ pc' = [pc EXCEPT ![r] = "convos"]
    /\ UNCHANGED <<now, cfgVars, envVars, conversations, messages, sync_logs, session,
                   result, prev, runs_left>>

\* lines 737-749: the event-store fields of the local users are refreshed;
\* firebase_service.get_users raising ends the run
FirebaseUserData(r) ==
    /\ pc[r] = "fb_user_data"
    /\ \E fetch \in {"ok", "raise"} :
        /\ hist' = [hist EXCEPT ![r].conn_failed = @ \/ (fetch = "raise")]
        /\ IF fetch = "ok"
           THEN /\ pc' = [pc EXCEPT ![r] = "convos"]
                /\ UNCHANGED <<loc, session, result, prev>>
           ELSE Finished(r, FailureResult("get_users"))
    /\ UNCHANGED <<now, cfgVars, envVars, dbVars, runs_left>>

\* the message ingest ahead of the conversation ingest: the run reaches
\* sync_messages with the conversations table as it was
SyncConversationsAfterMessages(r) ==
    /\ pc[r] = "convos"
    /\ DbFree(r)
    /\ loc' = [loc EXCEPT ![r].last_sync_timestamp = GetLastSyncTimestamp(sync_logs)]
    /\ pc' = [pc EXCEPT ![r] = "messages"]
    /\ UNCHANGED <<now, cfgVars, envVars, dbVars, session, result, hist, prev, runs_left>>

\* lines 751-755: the watermark is read, then sync_conversations
\* (lines 566-599) runs as one transaction
SyncConversations(r) ==
    /\ pc[r] = "convos"
    /\ DbFree(r)
    /\ LET last_sync_timestamp == GetLastSyncTimestamp(sync_logs)
       IN \E fetch \in {"ok", "raise"} :
            /\ hist' = [hist EXCEPT ![r].conn_failed = @ \/ (fetch = "raise")]
            /\ IF fetch = "ok"
               THEN LET done == SyncConversationsFrom(conversations, 0, users, fs_convos,
                                   GetConversationsSince(fs_convos, last_sync_timestamp), 1)
                    IN /\ conversations' = done.rows
                       /\ loc' = [loc EXCEPT ![r].last_sync_timestamp = last_sync_timestamp,
                                             ![r].conversations_synced = done.synced_count]
                       /\ pc' = [pc EXCEPT ![r] = "messages"]
                       /\ UNCHANGED <<session, result, prev>>
               ELSE /\ conversations' = conversations
                    /\ Finished(r, FailureResult("get_conversations_since"))
    /\ UNCHANGED <<now, cfgVars, envVars, users, messages, sync_logs, runs_left>>

\* lines 760-769: the arguments full_sync gives sync_messages
UidList == IF mode \in {"uids", "both"} THEN uids ELSE <<>>

SinceTimestamp(l) == IF mode \in {"redcap", "all"} THEN l.last_sync_timestamp ELSE 0

\* lines 614-626: what the fetch of sync_messages can produce: with a UID
\* list a fetch that raises drops that UID, without one it ends the run
MessageFetches(fsm, uid_list, since) ==
    IF uid_list # <<>>
    THEN {[propagates |-> FALSE,
           failed |-> (\E i \in 1..Len(uid_list) : f[i] = "raise"),
           list |-> MessagesForUids(fsm, uid_list, f, 1)] :
              f \in [1..Len(uid_list) -> {"ok", "raise"}]}
    ELSE {[propagates |-> FALSE, failed |-> FALSE, list |-> GetMessagesSince(fsm, since)],
          [propagates |-> TRUE, failed |-> TRUE, list |-> <<>>]}

\* sync_messages (lines 601-685), one transaction, with the alerts the
\* loop sends before the commit
SyncMessages(r) ==
    /\ pc[r] = "messages"
    /\ DbFree(r)
    /\ \E got \in MessageFetches(fs_messages, UidList, SinceTimestamp(loc[r])),
          twilio \in [RiskyIds -> TwilioOutcomes],
          commit \in {"ok", "raise"} :
        LET st == SyncMessagesFrom([rows |-> messages, synced_count |-> 0, alerts_sent |-> 0,
                                    offered |-> {}, deliverable |-> {}, existing |-> {},
                                    skipped |-> {}, calls |-> <<>>],
                                   conversations, users, fs_messages, got.list, twilio, 1)
        IN /\ hist' = [hist EXCEPT ![r].conn_failed = @ \/ got.failed,
                                   ![r].persist_failed = ~got.propagates /\ commit = "raise",
                                   ![r].offered = st.offered,
                                   ![r].skipped = st.skipped,
                                   ![r].deliverable = st.deliverable,
                                   ![r].existing = st.existing,
                                   ![r].batch = got.list,
                                   ![r].calls = st.calls,
                                   ![r].pending =
                                       IF ~got.propagates /\ commit = "raise"
                                       THEN {st.rows[i].firebase_message_id :
                                                 i \in Len(messages) + 1 .. Len(st.rows)}
                                       ELSE {},
                                   ![r].fetched_at = now]
           /\ IF got.propagates
              THEN /\ messages' = messages
                   /\ Finished(r, FailureResult("get_messages_since"))
              ELSE IF commit = "raise"
              THEN /\ messages' = Rollback(messages, st.rows)
                   /\ Finished(r, FailureResult("commit"))
              ELSE /\ messages' = st.rows
                   /\ loc' = [loc EXCEPT ![r].messages_synced = st.synced_count,
                                         ![r].alerts_sent = st.alerts_sent]
                   /\ pc' = [pc EXCEPT ![r] = "log"]
                   /\ UNCHANGED <<session, result, prev>>
    /\ UNCHANGED <<now, cfgVars, envVars, users, conversations, sync_logs, runs_left>>

\* lines 775-781: the row full_sync adds to sync_logs; of its columns only
\* last_sync_timestamp is ever read back by the synchronisation
NewSyncLog(end_time, l) == [last_sync_timestamp |-> end_time]

\* lines 771-795: end_time is read, the log row is committed, the result
\* is returned; a commit that raises reaches the except branch
RecordSyncLog(r) ==
    /\ pc[r] = "log"
    /\ DbFree(r)
    /\ LET end_time == now
           pending == Append(sync_logs, NewSyncLog(end_time, loc[r]))
       IN \E commit \in {"ok", "raise"} :
            /\ hist' = [hist EXCEPT ![r].persist_failed = (commit = "raise")]
            /\ IF commit = "ok"
               THEN /\ sync_logs' = pending
                    /\ Finished(r, SuccessResult(loc[r]))
               ELSE /\ sync_logs' = Rollback(sync_logs, pending)
                    /\ Finished(r, FailureResult("commit"))
    /\ UNCHANGED <<now, cfgVars, envVars, users, conversations, messages, runs_left>>

\* the caller (cron_sync.main, the /api/sync route) has used the result
Return(r) ==
    /\ pc[r] = "done"
    /\ pc' = [pc EXCEPT ![r] = "idle"]
    /\ hist' = [hist EXCEPT ![r] = InitHist]
    /\ result' = [result EXCEPT ![r] = NoResult]
    /\ loc' = [loc EXCEPT ![r] = InitLoc]
    /\ UNCHANGED <<now, cfgVars, envVars, dbVars, session, prev, runs_left>>

\* ------------------------------------------------------ specifications
StoreEvents ==
    \/ Tick
    \/ \E c \in ConvoIds : AddConversation(c)
    \/ \E m \in MessageIds : AddMessage(m)

\* the clients write one conversation and its risky message
StoreEventsOne ==
    \/ Tick
    \/ AddConversation("c1")
    \/ AddMessage("m1")

Run(r) ==
    \/ FullSyncStart(r)
    \/ Deactivate(r)
    \/ RedcapFetch(r)
    \/ RedcapParticipant(r)
    \/ RedcapCommit(r)
    \/ SyncUidUsers(r)
    \/ SyncAllFirebaseUsers(r)
    \/ FirebaseUserData(r)
    \/ SyncConversations(r)
    \/ SyncMessages(r)
    \/ RecordSyncLog(r)
    \/ Return(r)

\* one caller (the cron job) runs full_sync, one invocation after another,
\* while a client writes a conversation and a message to the event store
Init ==
    /\ InitCommon
    /\ env_left = 0
    /\ runs_left = MaxInvocations
    /\ mode \in Modes
    /\ uids = <<"a1">>
    /\ redcap = [p \in Projects |-> [rec \in Range(RecordIds) |->
                                        IF p = "p1" THEN "a1" ELSE NoRecord]]
    /\ fs_users = {"a1"}
    /\ pc = [r \in Runs |-> IF r = 1 THEN "idle" ELSE "off"]

Next == StoreEventsOne \/ \E r \in Runs : Run(r)

Spec == Init /\ [][Next]_vars

\* two callers: the cron job and the /api/sync route of the web process
\* each call full_sync once, the event store already holding a conversation
\* and its message
InitConcurrent ==
    /\ now = 1
    /\ fs_convos = [c \in ConvoIds |-> IF c = "c1" THEN 1 ELSE 0]
    /\ fs_messages = [m \in MessageIds |-> IF m = "m1" THEN 1 ELSE 0]
    /\ users = <<>>
    /\ conversations = <<>>
    /\ messages = <<>>
    /\ sync_logs = <<>>
    /\ loc = [r \in Runs |-> InitLoc]
    /\ session = [r \in Runs |-> <<>>]
    /\ result = [r \in Runs |-> NoResult]
    /\ hist = [r \in Runs |-> InitHist]
    /\ prev = InitPrev
    /\ env_left = 0
    /\ runs_left = MaxInvocations
    /\ mode \in Modes
    /\ uids = <<"a1">>
    /\ redcap = [p \in Projects |-> [rec \in Range(RecordIds) |->
                                        IF p = "p1" THEN "a1" ELSE NoRecord]]
    /\ fs_users = {"a1"}
    /\ pc = [r \in Runs |-> "idle"]

NextConcurrent == \E r \in Runs : Run(r)

SpecConcurrent == InitConcurrent /\ [][NextConcurrent]_vars

\* the event ingestor and the risk notifier: the registry is empty, the
\* deployment follows the UID list or every account of the event store; the
\* clients write and update conversations and messages, a reviewer marks
\* messages reviewed
RunIngest(r) ==
    \/ FullSyncStart(r)
    \/ Deactivate(r)
    \/ SyncUidUsers(r)
    \/ SyncAllFirebaseUsers(r)
    \/ FirebaseUserData(r)
    \/ SyncConversations(r)
    \/ SyncMessages(r)
    \/ RecordSyncLog(r)
    \/ Return(r)

InitIngest ==
    /\ now = 1
    /\ fs_convos = [c \in ConvoIds |-> IF c = "c2" THEN 1 ELSE 0]
    /\ fs_messages = [m \in MessageIds |-> IF m = "m2" THEN 1 ELSE 0]
    /\ users = <<>>
    /\ conversations = <<>>
    /\ messages = <<>>
    /\ sync_logs = <<>>
    /\ loc = [r \in Runs |-> InitLoc]
    /\ session = [r \in Runs |-> <<>>]
    /\ result = [r \in Runs |-> NoResult]
    /\ hist = [r \in Runs |-> InitHist]
    /\ prev = InitPrev
    /\ env_left = 0
    /\ runs_left = MaxInvocations
    /\ mode \in {"uids", "all"}
    /\ uids = <<"a1", "a2">>
    /\ redcap = [p \in Projects |-> [rec \in Range(RecordIds) |-> NoRecord]]
    /\ fs_users = {"a1", "a2"}
    /\ pc = [r \in Runs |-> IF r = 1 THEN "idle" ELSE "off"]

IngestEvents ==
    \/ Tick
    \/ AddConversation("c1")
    \/ AddMessage("m1")
    \/ TouchConversation("c1")
    \/ \E i \in 1..Len(MessageList) : MarkMessageReviewed(i)

NextIngest == IngestEvents \/ \E r \in Runs : RunIngest(r)

SpecIngest == InitIngest /\ [][NextIngest]_vars

\* the registry reconciler under a changing registry: study staff edit the
\* records, accounts appear and disappear, the deployment is reconfigured;
\* the event store holds no conversation or message
InitReconcile ==
    /\ InitCommon
    /\ env_left = MaxEnvChanges
    /\ runs_left = MaxInvocations
    /\ mode \in Modes
    /\ uids = <<"a1">>
    /\ redcap \in {reg \in [Projects -> [Range(RecordIds) -> RegistryValues]] :
                        /\ \A rec \in Range(RecordIds) : reg["p1"][rec] \in {"", "a1"}
                        /\ \A rec \in Range(RecordIds) : reg["p2"][rec] \in {NoRecord, ""}}
    /\ fs_users \in {{}, {"a1"}}
    /\ pc = [r \in Runs |-> IF r = 1 THEN "idle" ELSE "off"]

RegistryEvents ==
    \/ \E a \in AccountIds : ChangeFsUser(a)
    \/ \E p \in Projects, i \in 1..Len(RecordIds), v \in RegistryValues :
          ChangeRegistry(p, RecordIds[i], v)
    \/ \E m \in Modes : ChangeMode(m)

NextReconcile == RegistryEvents \/ \E r \in Runs : Run(r)

SpecReconcile == InitReconcile /\ [][NextReconcile]_vars

\* ---------------------------------------------------------- properties
Watermark == GetLastSyncTimestamp(sync_logs)

Executing(r) == pc[r] \notin {"idle", "off", "done"}

Succeeded(r) == pc[r] = "done" /\ result[r].success

Failed(r) == pc[r] = "done" /\ ~result[r].success

ConversationLocal(m) == FindConversation(conversations, MsgConvo(m)) # 0

UserLocal(m) == FindUser(users, MsgUser(m)) # 0

MessageLocal(m) == FindMessage(messages, m) # 0

\* C1: full_sync is single-flight: while one invocation executes its phases
\* no other invocation executes any phase (a second call returns at once).
SingleFlight == \A r \in Runs, q \in Runs : (Executing(r) /\ Executing(q)) => r = q

\* C2: a risky message whose alert was not sent by the run that inserted it
\* is offered to the alert sender again by the next run.
FailedAlertRetried ==
    \A r \in Runs : Succeeded(r) => hist[r].unalerted_before \subseteq hist[r].offered

\* C3: in the incremental modes, a message the previous run skipped because
\* its conversation was not local is inserted by the next run once that
\* conversation (and the user) is local.
SkippedMessageInserted ==
    \A r \in Runs : (Succeeded(r) /\ mode \in {"redcap", "all"}) =>
        \A m \in hist[r].skipped_before :
            (ConversationLocal(m) /\ UserLocal(m)) => MessageLocal(m)

\* C4: a message written to the event store while a successful run was
\* between its message fetch and its completion is inserted by a later
\* successful run, when its conversation and user are local.
InFlightMessageInserted ==
    \A r \in Runs : Succeeded(r) =>
        \A m \in hist[r].in_flight_before :
            (ConversationLocal(m) /\ UserLocal(m)) => MessageLocal(m)

\* C5: the watermark a successful run records is the time at which the run
\* began.
WatermarkIsRunStart ==
    \A r \in Runs : Succeeded(r) =>
        sync_logs[Len(sync_logs)].last_sync_timestamp = loc[r].start_time

\* C6: the watermark never decreases, and a run that returns success=false
\* leaves it as it was when the run started.
WatermarkMonotone ==
    [][/\ GetLastSyncTimestamp(sync_logs') >= GetLastSyncTimestamp(sync_logs)
       /\ \A r \in Runs : (pc'[r] = "done" /\ ~result'[r].success) =>
              GetLastSyncTimestamp(sync_logs') = hist'[r].watermark_before]_vars

\* a run failed after an earlier run had set the watermark, at a later time
\* than the watermark
WitnessWatermarkMonotone ==
    \E r \in Runs : /\ Failed(r)
                    /\ hist[r].watermark_before > 0
                    /\ now > hist[r].watermark_before
                    /\ Watermark = hist[r].watermark_before

\* C7: a run in which a collaborator call failed writes no SyncLog row (it
\* does not advance the watermark).
NoAdvanceAfterConnectivityError ==
    \A r \in Runs : (pc[r] = "done" /\ hist[r].conn_failed) =>
        Len(sync_logs) = hist[r].logs_before

\* C8: a run that fails appends one SyncLog row for that run and does not
\* advance the watermark.
FailedRunLogged ==
    \A r \in Runs : Failed(r) =>
        /\ Len(sync_logs) = hist[r].logs_before + 1
        /\ Watermark = hist[r].watermark_before

Resolved(u) == u.firebase_id \in AccountIds

\* C9: a Resolved user row keeps its firebase_id through every later step of
\* every sync operation, whatever the registry and the event store report.
ResolvedStaysResolved ==
    [][\A i \in DOMAIN users : Resolved(users[i]) =>
          /\ i \in DOMAIN users'
          /\ users'[i].firebase_id = users[i].firebase_id]_vars

\* a later reconcile met the record of a Resolved row with an id that is
\* empty, does not resolve, or is another account: it stored a second row
WitnessResolvedStaysResolved ==
    \E i \in DOMAIN users, j \in DOMAIN users :
        /\ i < j
        /\ Resolved(users[i])
        /\ users[i].redcap_id # ""
        /\ users[j].redcap_id = users[i].redcap_id
        /\ users[j].project_id = users[i].project_id

\* C10: when the participant loop meets a record that has a stored
\* placeholder, with an id that resolves and that no local user carries, the
\* placeholder row takes that id, no row is added, and the commit of the
\* project stores exactly that.
PlaceholderPromoted ==
    [][\A r \in Runs :
          /\ (pc[r] = "redcap_participant" /\ loc'[r] # loc[r]) =>
                LET p == ProjectList[loc[r].project_index]
                    part == loc[r].redcap_participants[loc[r].participant_index]
                    k == FindUser(session[r], PlaceholderKey(p, part.record_id))
                IN (k # 0 /\ part.firebase_id # "" /\ part.firebase_id \in fs_users
                        /\ hist'[r].lookup = "found"
                        /\ FindUser(session[r], part.firebase_id) = 0) =>
                      /\ Len(session'[r]) = Len(session[r])
                      /\ session'[r][k].firebase_id = part.firebase_id
          /\ (pc[r] = "redcap_commit" /\ pc'[r] \notin {"redcap_commit", "done"}) =>
                users' = session[r]]_vars

\* a run promoted a placeholder and committed it
WitnessPlaceholderPromoted ==
    \E r \in Runs : /\ hist[r].promoted
                    /\ Succeeded(r)
                    /\ \E i \in DOMAIN users : Resolved(users[i]) /\ users[i].is_active

\* no two rows of a table stand for the same message, conversation or identity
NoDuplicateRows ==
    /\ \A i \in DOMAIN messages, j \in DOMAIN messages :
          messages[i].firebase_message_id = messages[j].firebase_message_id => i = j
    /\ \A i \in DOMAIN conversations, j \in DOMAIN conversations :
          conversations[i].firebase_convo_id = conversations[j].firebase_convo_id => i = j
    /\ \A i \in DOMAIN users, j \in DOMAIN users :
          /\ users[i].firebase_id = users[j].firebase_id => i = j
          /\ (users[i].redcap_id # "" /\ users[i].redcap_id = users[j].redcap_id
                /\ users[i].project_id = users[j].project_id) => i = j

\* C11: a successful run that follows a successful run, the configuration,
\* the registry and the event store unchanged from the start of the first to
\* the end of the second, leaves the three tables at the sizes the first run
\* left, without duplicate rows.
SecondRunIdempotent ==
    \A r \in Runs : (Succeeded(r) /\ hist[r].repeat /\ hist[r].env_same) =>
        /\ RowCounts = hist[r].rows_before
        /\ NoDuplicateRows

\* C12: sync_messages leaves the stored row of a message it fetches again as
\* it is, in every column, adds no second row for it and offers it to the
\* alert sender no more.
ExistingMessageUntouched ==
    [][\A r \in Runs : (pc[r] = "messages" /\ pc'[r] # "messages") =>
          \A i \in DOMAIN messages :
              /\ i \in DOMAIN messages'
              /\ messages'[i] = messages[i]
              /\ messages[i].firebase_message_id \notin hist'[r].offered
              /\ \A j \in DOMAIN messages' :
                    messages'[j].firebase_message_id = messages[i].firebase_message_id => j = i]_vars

\* sync_messages fetched a risky message that was stored and reviewed
WitnessExistingMessageUntouched ==
    \E r \in Runs, i \in DOMAIN messages :
        /\ pc[r] = "log"
        /\ messages[i].firebase_message_id \in hist[r].existing
        /\ messages[i].is_risky
        /\ messages[i].is_reviewed

\* C14: a risky message that a successful run inserted while the alert
\* sender was able to deliver is stored with alert_sent = TRUE, and the run
\* counts it in alerts_sent.
DeliverableAlertSent ==
    \A r \in Runs : Succeeded(r) =>
        /\ \A m \in hist[r].deliverable :
              /\ MessageLocal(m)
              /\ messages[FindMessage(messages, m)].alert_sent
        /\ result[r].alerts_sent = Cardinality(hist[r].deliverable)

\* C15: an alert that fails or raises does not fail the run: sync_messages
\* ends only on a failed fetch or commit, every message it offered to the
\* alert sender is stored, every other fetched message with a local
\* conversation and user is stored too, and alerts_sent counts exactly the
\* offered messages stored with alert_sent = TRUE.
FailedAlertDoesNotFailRun ==
    [][\A r \in Runs : (pc[r] = "messages" /\ pc'[r] # "messages") =>
          /\ pc'[r] = "log" \/ result'[r].error \in {"get_messages_since", "commit"}
          /\ pc'[r] = "log" =>
                /\ \A m \in hist'[r].offered : FindMessage(messages', m) # 0
                /\ \A k \in DOMAIN hist'[r].batch :
                      (ConversationLocal(hist'[r].batch[k]) /\ UserLocal(hist'[r].batch[k]))
                          => FindMessage(messages', hist'[r].batch[k]) # 0
                /\ loc'[r].alerts_sent =
                      Cardinality({m \in hist'[r].offered :
                                      messages'[FindMessage(messages', m)].alert_sent})]_vars

\* a run succeeded in which the alert of the risky message m1 failed, m1 was
\* stored with alert_sent = FALSE and the message fetched after it was stored
WitnessFailedAlertDoesNotFailRun ==
    \E r \in Runs :
        /\ Succeeded(r)
        /\ hist[r].batch = <<"m1", "m2">>
        /\ "m1" \in hist[r].offered
        /\ MessageLocal("m1") /\ MessageLocal("m2")
        /\ ~messages[FindMessage(messages, "m1")].alert_sent
        /\ FindMessage(messages, "m1") < FindMessage(messages, "m2")
        /\ result[r].messages_synced = 2
        /\ result[r].alerts_sent = 0

\* C16: after a successful run every user row that a registry record fetched
\* in the run mapped to is active.
TouchedIdentityActive ==
    \A r \in Runs : Succeeded(r) =>
        \A i \in hist[r].touched : users[i].is_active

\* C17: no step removes a user row, and after a successful run in 'redcap'
\* mode every user row that no fetched registry record mapped to is still
\* there and is inactive.
AbsentIdentityKeptInactive ==
    [][/\ \A i \in DOMAIN users : i \in DOMAIN users'
       /\ \A r \in Runs : (pc'[r] = "done" /\ result'[r].success /\ mode' = "redcap") =>
             \A i \in DOMAIN users' \ hist'[r].touched : ~users'[i].is_active]_vars

\* a successful run in 'redcap' mode left the row of a registry participant,
\* whose record it did not fetch, in the table and inactive
WitnessAbsentIdentityKeptInactive ==
    \E r \in Runs, i \in DOMAIN users :
        /\ Succeeded(r)
        /\ mode = "redcap"
        /\ hist[r].fetch_failed = {}
        /\ i \notin hist[r].touched
        /\ users[i].redcap_id # ""
        /\ redcap[users[i].project_id][users[i].redcap_id] = NoRecord
        /\ ~users[i].is_active

\* C18: when the participant fetch of a project raises, every other project
\* is still fetched, reconciled and committed: past the loop over the
\* projects each project either failed its fetch or is reconciled, and every
\* record of a reconciled project has its committed row.
OtherProjectsReconciled ==
    \A r \in Runs :
        (mode \in {"redcap", "both"}
            /\ (pc[r] = "fb_user_data" \/ (pc[r] = "uid_users" /\ mode = "both") \/ Succeeded(r))) =>
        /\ hist[r].fetch_failed \cup hist[r].reconciled = Projects
        /\ hist[r].fetch_failed \cap hist[r].reconciled = {}
        /\ \A p \in hist[r].reconciled :
              \A k \in DOMAIN GetAllParticipants(redcap, p) :
                  LET part == GetAllParticipants(redcap, p)[k]
                  IN \E i \in hist[r].touched :
                        /\ i \in DOMAIN users
                        /\ users[i].redcap_id = part.record_id
                        /\ users[i].project_id = p \/ users[i].firebase_id = part.firebase_id

\* the fetch of the first project raised and the second project, fetched
\* after it, has its participant stored
WitnessOtherProjectsReconciled ==
    \E r \in Runs, i \in DOMAIN users :
        /\ Succeeded(r)
        /\ mode \in {"redcap", "both"}
        /\ hist[r].fetch_failed = {"p1"}
        /\ hist[r].reconciled = {"p2"}
        /\ i \in hist[r].touched
        /\ users[i].project_id = "p2"
        /\ users[i].is_active

\* C19: full_sync returns success = FALSE with an error string exactly when
\* a connectivity or persistence error occurred in some stage of the run,
\* and success = TRUE otherwise.
FailureExactlyOnError ==
    \A r \in Runs : pc[r] = "done" =>
        /\ ~result[r].success <=> (hist[r].conn_failed \/ hist[r].persist_failed)
        /\ ~result[r].success => result[r].error # ""

\* C20: a stored conversation row is never modified: a later
\* sync_conversations that fetches its firebase_convo_id again leaves its
\* timestamp (and prompt) and its owning user as they were.
ConversationRowImmutable ==
    [][\A i \in DOMAIN conversations :
          /\ i \in DOMAIN conversations'
          /\ conversations'[i] = conversations[i]]_vars

\* C21: in the UID modes ('uids' and 'both') the conversations of the listed
\* identities are fetched whatever the watermark: after a successful run,
\* every conversation of a listed identity that the event store held with a
\* timestamp at or before the watermark the run started with is local.
UidConversationIngested ==
    \A r \in Runs : (Succeeded(r) /\ mode \in {"uids", "both"}) =>
        \A c \in ConvoIds :
            (/\ ConvoUser(c) \in Range(uids)
             /\ fs_convos[c] # 0
             /\ hist[r].watermark_before # 0
             /\ fs_convos[c] <= hist[r].watermark_before
             /\ FindUser(users, ConvoUser(c)) # 0)
            => FindConversation(conversations, c) # 0

\* C22: when the message phase fails before its commit, none of the messages
\* it added is stored and the watermark stays as it was; the next successful
\* run stores each of those messages, exactly once.
FailedMessagePhaseRedone ==
    \A r \in Runs :
        /\ (Failed(r) /\ hist[r].pending # {}) =>
              /\ \A m \in hist[r].pending : ~MessageLocal(m)
              /\ Watermark = hist[r].watermark_before
        /\ Succeeded(r) =>
              \A m \in hist[r].pending_before :
                  Cardinality({i \in DOMAIN messages :
                                   messages[i].firebase_message_id = m}) = 1

\* C23: whatever the registry and the event store did between the reconcile
\* passes, the users table holds at most one row per (project_id, redcap_id).
OneRowPerRecord ==
    \A i \in DOMAIN users, j \in DOMAIN users :
        (/\ users[i].redcap_id # ""
         /\ users[i].redcap_id = users[j].redcap_id
         /\ users[i].project_id = users[j].project_id) => i = j

\* ------------------------------------------- the combined mode 'both'
\* every phase full_sync runs in mode 'both'
RunBoth(r) ==
    \/ FullSyncStart(r)
    \/ Deactivate(r)
    \/ RedcapFetch(r)
    \/ RedcapParticipant(r)
    \/ RedcapCommit(r)
    \/ SyncUidUsers(r)
    \/ FirebaseUserData(r)
    \/ SyncConversations(r)
    \/ SyncMessages(r)
    \/ RecordSyncLog(r)
    \/ Return(r)

\* the deployment monitors the registry participant a2 and the UID a1, which
\* FIREBASE_UIDS lists twice; the event store holds both accounts, their
\* conversations and the message of a2; the client of a1 writes a risky
\* message
InitBoth ==
    /\ now = 1
    /\ fs_convos = [c \in ConvoIds |-> 1]
    /\ fs_messages = [m \in MessageIds |-> IF m = "m2" THEN 1 ELSE 0]
    /\ users = <<>>
    /\ conversations = <<>>
    /\ messages = <<>>
    /\ sync_logs = <<>>
    /\ loc = [r \in Runs |-> InitLoc]
    /\ session = [r \in Runs |-> <<>>]
    /\ result = [r \in Runs |-> NoResult]
    /\ hist = [r \in Runs |-> InitHist]
    /\ prev = InitPrev
    /\ env_left = 0
    /\ runs_left = MaxInvocations
    /\ mode = "both"
    /\ uids = <<"a1", "a1">>
    /\ redcap = [p \in Projects |-> [rec \in Range(RecordIds) |->
                                        IF p = "p1" THEN "a2" ELSE NoRecord]]
    /\ fs_users = {"a1", "a2"}
    /\ pc = [r \in Runs |-> IF r = 1 THEN "idle" ELSE "off"]

BothEvents ==
    \/ Tick
    \/ AddMessage("m1")

NextBoth == BothEvents \/ \E r \in Runs : RunBoth(r)

SpecBoth == InitBoth /\ [][NextBoth]_vars

\* C24: in mode 'both' with a non-empty UID list the registry participants
\* are monitored too: after a successful run, a message of a resolved registry
\* participant outside the UID list that was written before the run fetched
\* messages and after the watermark, and whose conversation is local, is
\* local.
BothMonitorsRegistry ==
    \A r \in Runs : (Succeeded(r) /\ mode = "both" /\ uids # <<>>) =>
        \A m \in MessageIds :
            (/\ MsgUser(m) \notin Range(uids)
             /\ fs_messages[m] # 0
             /\ fs_messages[m] < hist[r].fetched_at
             /\ fs_messages[m] > hist[r].watermark_before
             /\ ConversationLocal(m)
             /\ \E i \in DOMAIN users : /\ users[i].firebase_id = MsgUser(m)
                                        /\ users[i].redcap_id # "")
            => MessageLocal(m)

\* C25: a run that fails after it started leaves the is_active flag of every
\* identity stored before the run as it was before the run.
FailedRunKeepsActive ==
    \A r \in Runs : Failed(r) =>
        \A i \in 1..hist[r].rows_before[1] :
            users[i].is_active = (i \in hist[r].active_before)

\* C26: when the participant fetch of a project fails during a run, the
\* identities stored for that project before the run have the same is_active
\* flag after the run as before it.
FailedFetchKeepsActive ==
    \A r \in Runs : pc[r] = "done" =>
        \A i \in 1..hist[r].rows_before[1] :
            users[i].project_id \in hist[r].fetch_failed =>
                users[i].is_active = (i \in hist[r].active_before)

\* ------------------------------------- records without a local owner
\* every phase full_sync runs in mode 'all'
RunOrphan(r) ==
    \/ FullSyncStart(r)
    \/ Deactivate(r)
    \/ SyncAllFirebaseUsers(r)
    \/ SyncConversations(r)
    \/ SyncMessages(r)
    \/ RecordSyncLog(r)
    \/ Return(r)

\* the deployment follows every account of the event store; the account a1
\* may be missing from the users collection while its client writes a
\* conversation and a message
InitOrphan ==
    /\ now = 1
    /\ fs_convos = [c \in ConvoIds |-> IF c = "c2" THEN 1 ELSE 0]
    /\ fs_messages = [m \in MessageIds |-> IF m = "m2" THEN 1 ELSE 0]
    /\ users = <<>>
    /\ conversations = <<>>
    /\ messages = <<>>
    /\ sync_logs = <<>>
    /\ loc = [r \in Runs |-> InitLoc]
    /\ session = [r \in Runs |-> <<>>]
    /\ result = [r \in Runs |-> NoResult]
    /\ hist = [r \in Runs |-> InitHist]
    /\ prev = InitPrev
    /\ env_left = 0
    /\ runs_left = MaxInvocations
    /\ mode = "all"
    /\ uids = <<>>
    /\ redcap = [p \in Projects |-> [rec \in Range(RecordIds) |-> NoRecord]]
    /\ fs_users \in {{"a2"}, {"a1", "a2"}}
    /\ pc = [r \in Runs |-> IF r = 1 THEN "idle" ELSE "off"]

NextOrphan == StoreEventsOne \/ \E r \in Runs : RunOrphan(r)

SpecOrphan == InitOrphan /\ [][NextOrphan]_vars

ConversationBeforeMessage ==
    [][\A r \in Runs : (pc[r] = "messages" /\ pc'[r] = "log") =>
          \A k \in DOMAIN hist'[r].batch :
              LET m == hist'[r].batch[k]
                  c == MsgConvo(m)
              IN (/\ fs_convos[c] # 0
                  /\ fs_convos[c] < loc[r].start_time
                  /\ NewerThan(fs_convos[c], loc[r].last_sync_timestamp)
                  /\ FindUser(users, ConvoUser(c)) # 0
                  /\ UserLocal(m))
                 => /\ FindConversation(conversations', c) # 0
                    /\ FindMessage(messages', m) # 0]_vars

\* a run succeeded that stored both the conversation c1 and its message m1,
\* neither of which was local before the run
WitnessConversationBeforeMessage ==
    \E r \in Runs :
        /\ Succeeded(r)
        /\ fs_convos["c1"] < loc[r].start_time
        /\ NewerThan(fs_convos["c1"], hist[r].watermark_before)
        /\ FindConversation(conversations, "c1") > hist[r].rows_before[2]
        /\ FindMessage(messages, "m1") > hist[r].rows_before[3]
        /\ messages[FindMessage(messages, "m1")].conversation_id =
               FindConversation(conversations, "c1")

\* C29: within a run the alert sender is called at most once per
\* firebase_message_id, even when the fetched batch holds the message more
\* than once, and never for a message stored before the run: once the phase
\* has committed, every message it was called for is a row the run added.
AlertOncePerInsertedMessage ==
    \A r \in Runs :
        \A k \in DOMAIN hist[r].calls :
            LET m == hist[r].calls[k]
            IN /\ \A j \in DOMAIN hist[r].calls : hist[r].calls[j] = m => j = k
               /\ \A i \in 1..hist[r].rows_before[3] : messages[i].firebase_message_id # m
               /\ (pc[r] = "log" \/ Succeeded(r)) =>
                      FindMessage(messages, m) > hist[r].rows_before[3]

\* a run succeeded whose batch held the risky message m1 twice, through the
\* UID listed twice: the alert sender was called once and the second copy was
\* found stored
WitnessAlertOncePerInsertedMessage ==
    \E r \in Runs :
        /\ Succeeded(r)
        /\ hist[r].batch = <<"m1", "m1">>
        /\ hist[r].calls = <<"m1">>
        /\ "m1" \in hist[r].existing
        /\ FindMessage(messages, "m1") > hist[r].rows_before[3]

\* C30: sync_uid_users leaves the research_assistant of every stored user
\* that has a redcap_id as it was, on every branch.
UidSyncKeepsRegistryData ==
    [][\A r \in Runs : (pc[r] = "uid_users" /\ pc'[r] # "uid_users") =>
          \A i \in DOMAIN users :
              users[i].redcap_id # "" =>
                  users'[i].research_assistant = users[i].research_assistant]_vars

====
